---- MODULE Spec2Model ----
(***************************************************************************)
(* Force Run to Cursor: the force-run state machine of src/extension.ts.   *)
(*                                                                         *)
(* The extension runs on a single-threaded event loop.  A handler runs     *)
(* without interruption until it awaits a host request (a DAP custom       *)
(* request or the run-to-cursor command); other handlers may run while it  *)
(* is suspended.  Every action below is one such uninterrupted stretch of  *)
(* a handler.  An await of an already settled promise only defers to the   *)
(* microtask queue, which drains before the next event is dispatched, so   *)
(* it does not end a stretch.                                              *)
(***************************************************************************)
EXTENDS Integers, Sequences, FiniteSets, TLC

\* ------------------------------------------------------------------
\* Bounds of the model
\* ------------------------------------------------------------------
MaxInvocations == 3      \* events dispatched to the extension in one behaviour
MaxTasks == 2            \* handlers suspended at an await at the same time

Sessions == {"s1", "s2"}
\* what the host adds while the extension runs: the user puts "A" back,
\* run-to-cursor sets its temporary breakpoint "T"
HostBreakpoints == {"A", "T"}

\* ------------------------------------------------------------------
\* Program constants and input domains
\* ------------------------------------------------------------------
MAX_EXCEPTION_CONTINUES == 3

NoFilters == [filters |-> <<>>]
UncaughtOnly == [filters |-> <<"uncaught">>]
RaisedIf == [filters |-> <<"raised">>,
             filterOptions |-> <<[filterId |-> "raised", condition |-> "x"]>>]
\* arguments of the setExceptionBreakpoints requests the host sends
FilterArgs == {NoFilters, UncaughtOnly, RaisedIf}

\* the breakpoint lists the user may have when the extension starts
InitialStores == {<<"A", "B">>, <<"B">>}

\* the session argument of forceRunToCursorImpl: a session, or undefined
NoSession == "none"
SessionArgs == Sessions \cup {NoSession}
\* the session argument of maybeRestoreOnAdapterEvent: the session, or undefined
StopSessionArgs == {"undefined", "session"}

Request(cmd, a) == [type |-> "request", command |-> cmd, arguments |-> a]
Event(ev, r) == [type |-> "event", event |-> ev, body |-> [reason |-> r, threadId |-> 1]]
NoRequest == [type |-> "none"]
NoConfig == [none |-> TRUE]

\* messages the adapter sends (tracker: onDidSendMessage)
AdapterMessages ==
  {Event("stopped", "breakpoint"), Event("stopped", "exception"),
   Event("terminated", "none"), Event("exited", "none"), Event("output", "none"),
   [type |-> "response", command |-> "continue"],
   Request("runInTerminal", [threadId |-> 1])}

\* requests the host sends to the adapter (tracker: onWillReceiveMessage)
HostMessages ==
  {Request("setExceptionBreakpoints", a) : a \in FilterArgs}
    \cup {Request("continue", [threadId |-> 1]), Request("threads", [threadId |-> 1])}

\* the same, and a setExceptionBreakpoints request whose arguments carry no filters
NoArguments == [threadId |-> 1]
HostMessagesSeq == HostMessages \cup {Request("setExceptionBreakpoints", NoArguments)}

VARIABLES
  store,            \* vscode.debug.breakpoints, in order
  activeRuns,       \* ctx.activeRuns: entries [id, st] in insertion order
  exceptionCache,   \* ctx.exceptionCache: function on the cached session ids
  tasks,            \* handlers suspended at an await, oldest first
  timers,           \* pending no-op timers per session
  statusBarActive,  \* the closure variable of updateStatusBar
  sessionInfo,      \* per session: whether its object has customRequest, and
                    \*              whether its termination was reported
  invocations,      \* events dispatched so far
  lastAct,          \* history: what the last step did
  epoch,            \* history: per session, the store before the force-run began,
                    \*          the run-to-cursor commands issued in it, whether
                    \*          a continue request was observed while it was recorded,
                    \*          the store before the first of the force-runs
                    \*          that were pending when it began, and the pending
                    \*          timers that were scheduled during it
  readds,           \* history: per session, re-adds of the recorded snapshot
  retired,          \* history: re-add counts of the states that left activeRuns
  deactivated       \* deactivate() has run: the host disposed the subscriptions

vars == <<store, activeRuns, exceptionCache, tasks, timers, statusBarActive,
          sessionInfo, invocations, lastAct, epoch, readds, retired, deactivated>>

\* ------------------------------------------------------------------
\* Map and sequence helpers
\* ------------------------------------------------------------------
Range(q) == {q[i] : i \in 1..Len(q)}

RemoveAt(q, i) == [j \in 1..(Len(q) - 1) |-> IF j < i THEN q[j] ELSE q[j + 1]]

\* position of session s in activeRuns, 0 when absent
IndexOf(runs, s) ==
  IF \E i \in 1..Len(runs) : runs[i].id = s
    THEN CHOOSE i \in 1..Len(runs) : runs[i].id = s
    ELSE 0

\* Map.prototype.has / get / set / delete
Has(runs, s) == IndexOf(runs, s) # 0
Get(runs, s) == runs[IndexOf(runs, s)].st
\* what Map.prototype.get returns for a missing key
Undefined == [undefined |-> TRUE]
RunStateOf_Default(runs, s) ==
  IF Has(runs, s) THEN Get(runs, s)
  ELSE [savedBreakpoints |-> <<>>, continueCount |-> 0, sessionRef |-> FALSE,
        didContinue |-> FALSE]
\* ctx.activeRuns.get(sessionId): the state, or undefined
RunStateOf(runs, s) == IF Has(runs, s) THEN Get(runs, s) ELSE Undefined
MapSet(runs, s, st) ==
  IF Has(runs, s)
    THEN [runs EXCEPT ![IndexOf(runs, s)] = [id |-> s, st |-> st]]
    ELSE Append(runs, [id |-> s, st |-> st])
MapDelete_Keep(runs, s) == runs
MapDelete_First(runs, s) == IF Has(runs, s) THEN RemoveAt(runs, 1) ELSE runs
MapDelete(runs, s) ==
  IF Has(runs, s) THEN RemoveAt(runs, IndexOf(runs, s)) ELSE runs

CacheHas(cache, s) == s \in DOMAIN cache
CacheSet(cache, s, v) == [x \in DOMAIN cache \cup {s} |-> IF x = s THEN v ELSE cache[x]]
CacheDelete_Keep(cache, s) == cache
CacheDelete(cache, s) == [x \in DOMAIN cache \ {s} |-> cache[x]]

\* ------------------------------------------------------------------
\* Records
\* ------------------------------------------------------------------
\* ForceRunState; sessionRef: whether the optional reference is stored (a stored
\* reference always carries customRequest), didContinue: undefined counts as FALSE
RunState(saved, count, ref, cont) ==
  [savedBreakpoints |-> saved, continueCount |-> count, sessionRef |-> ref,
   didContinue |-> cont]

\* a handler suspended at an await: the request it waits for, whether the tracker
\* has seen that request, and the locals it uses when it resumes
Task(kind, sid, pc, req, saved, iter) ==
  [kind |-> kind, sid |-> sid, pc |-> pc, req |-> req, seen |-> FALSE,
   saved |-> saved, iter |-> iter]

\* history record of one step: the handler, its session, the message it was given,
\* what it returned, the request it issued, the run-to-cursor commands, guidance
\* messages and warnings it issued, the session it restored last with the
\* store that restore found, the session argument of a stop handler that got past
\* its first guard, and whether the request the step resumes from was rejected
Act(op, sid, ret, req, rtc, info, warn) ==
  [op |-> op, sid |-> sid, ret |-> ret, req |-> req, rtc |-> rtc, info |-> info,
   warn |-> warn, in |-> NoRequest, restored |-> "none", leftover |-> <<>>,
   session |-> "none", rejected |-> FALSE, all |-> {}]
Restored(act, sid, leftover) == [act EXCEPT !.restored = sid, !.leftover = leftover]
Given(act, msg) == [act EXCEPT !.in = msg]
Via(act, session) == [act EXCEPT !.session = session]
After(act, ok) == [act EXCEPT !.rejected = ~ok]
\* the sessions a stretch of cancelAll restored
RestoredAll(act, S) == [act EXCEPT !.all = S]

\* ------------------------------------------------------------------
\* The host's breakpoint store
\* ------------------------------------------------------------------
RemoveBreakpoints_None(st, bps) == st
\* vscode.debug.removeBreakpoints
RemoveBreakpoints(st, bps) == SelectSeq(st, LAMBDA b : b \notin Range(bps))

\* vscode.debug.addBreakpoints: appends, skipping what the store already holds
AddBreakpoints(st, bps) == st \o SelectSeq(bps, LAMBDA b : b \notin Range(st))

\* ------------------------------------------------------------------
\* Pure parts of the handlers
\* ------------------------------------------------------------------
restoreBreakpoints_KeepLeftover(st, saved) == AddBreakpoints(st, saved)
restoreBreakpoints(st, saved) ==
  LET leftover == st
      cleared == IF Len(leftover) > 0 THEN RemoveBreakpoints(st, leftover) ELSE st
  IN AddBreakpoints(cleared, saved)

fullRestoreRequest_IgnoresSession(cache, sid, hasCustomRequest) ==
  IF CacheHas(cache, sid) THEN Request("setExceptionBreakpoints", cache[sid]) ELSE NoRequest
\* fullRestore after its restoreBreakpoints call: the request it awaits, if any
fullRestoreRequest(cache, sid, hasCustomRequest) ==
  IF CacheHas(cache, sid) /\ hasCustomRequest
    THEN Request("setExceptionBreakpoints", cache[sid])
    ELSE NoRequest

\* args?.filters ?? []
ArgFilters(args) == IF "filters" \in DOMAIN args THEN args.filters ELSE <<>>

cacheExceptionFilters_NoGuard(cache, runs, sid, msg) ==
  IF msg.type # "request" \/ msg.command # "setExceptionBreakpoints" THEN cache
  ELSE CacheSet(cache, sid, msg.arguments)
cacheExceptionFilters_Merge(cache, runs, sid, msg) ==
  IF msg.type # "request" \/ msg.command # "setExceptionBreakpoints" THEN cache
  ELSE IF Has(runs, sid) THEN cache
  ELSE IF CacheHas(cache, sid) /\ "filterOptions" \in DOMAIN cache[sid]
            /\ "filterOptions" \notin DOMAIN msg.arguments
    THEN CacheSet(cache, sid, [filters |-> ArgFilters(msg.arguments),
                               filterOptions |-> cache[sid].filterOptions])
    ELSE CacheSet(cache, sid,
                  IF "filterOptions" \in DOMAIN msg.arguments
                    THEN [filters |-> ArgFilters(msg.arguments),
                          filterOptions |-> msg.arguments.filterOptions]
                    ELSE [filters |-> ArgFilters(msg.arguments)])
cacheExceptionFilters(cache, runs, sid, msg) ==
  IF msg.type # "request" \/ msg.command # "setExceptionBreakpoints" THEN cache
  ELSE IF Has(runs, sid) THEN cache
  ELSE LET args == msg.arguments
           state == IF "filterOptions" \in DOMAIN args
                      THEN [filters |-> ArgFilters(args), filterOptions |-> args.filterOptions]
                      ELSE [filters |-> ArgFilters(args)]
       IN CacheSet(cache, sid, state)

IsStoppedEvent_AnyEvent(msg) == msg.type = "event"
\* the message guard of maybeRestoreOnAdapterEvent
IsStoppedEvent(msg) == msg.type = "event" /\ msg.event = "stopped"

BelowCeiling_OffByOne(count) == count < MAX_EXCEPTION_CONTINUES - 1
BelowCeiling_Inclusive(count) == count <= MAX_EXCEPTION_CONTINUES
\* the auto-continue counter is below the ceiling
BelowCeiling(count) == count < MAX_EXCEPTION_CONTINUES

Counted_Not(runState) == runState
\* runState.continueCount++
Counted(runState) == [runState EXCEPT !.continueCount = @ + 1]

autoContinueSettled_Propagates(ok) == IF ok THEN "resolved" ELSE "rejected"
\* how the awaited continue request of the auto-continue ends for the handler: a
\* rejection is caught and logged
autoContinueSettled(ok) == "resolved"

fullRestoreSettled_Propagates(ok) == IF ok THEN "resolved" ELSE "rejected"
\* how the promise of fullRestore settles when its setExceptionBreakpoints request
\* settles: a rejection of the request is caught and logged
fullRestoreSettled(ok) == "resolved"

SuppressedRef_Always(ok) == TRUE
SuppressedRef_Never(ok) == FALSE
\* whether runState.sessionRef is stored: only when the suppression request resolved
SuppressedRef(ok) == ok

\* the continue tracking of onWillReceiveMessage
markContinue(runs, sid, msg) ==
  IF msg.type = "request" /\ msg.command = "continue" /\ Has(runs, sid)
    THEN MapSet(runs, sid, [Get(runs, sid) EXCEPT !.didContinue = TRUE])
    ELSE runs

\* updateStatusBar: the value statusBarActive has after the call
updateStatusBar(runs) == Len(runs) > 0

\* a Map iterator is a position in the insertion order: deleting the entry at
\* position j moves the iterators that are past it
DeleteShift(ts, j) ==
  [i \in 1..Len(ts) |->
     IF ts[i].kind = "cancel" /\ j # 0 /\ ts[i].iter >= j
       THEN [ts[i] EXCEPT !.iter = @ - 1] ELSE ts[i]]
ClearShift(ts) ==
  [i \in 1..Len(ts) |-> IF ts[i].kind = "cancel" THEN [ts[i] EXCEPT !.iter = 0] ELSE ts[i]]

\* ------------------------------------------------------------------
\* Initial state
\* ------------------------------------------------------------------
\* the state after activate(), with the exception filters the host has configured so
\* far for some of the sessions of S; Plain: the sets of sessions that may be the
\* ones whose object has no customRequest
InitFor(S, Plain) ==
  /\ store \in InitialStores
  /\ activeRuns = <<>>
  /\ \E D \in SUBSET S : exceptionCache \in [D -> {UncaughtOnly, RaisedIf}]
  /\ tasks = <<>>
  /\ timers = [s \in Sessions |-> 0]
  /\ statusBarActive = FALSE
  /\ \E C \in Plain :
       sessionInfo = [s \in Sessions |-> [customRequest |-> s \notin C, ended |-> FALSE]]
  /\ invocations = 0
  /\ lastAct = Act("init", "none", "void", NoRequest, 0, 0, 0)
  /\ epoch = [s \in Sessions |-> [pre |-> <<>>, rtc |-> 0, cfg |-> NoConfig, cont |-> FALSE,
                                  base |-> <<>>, own |-> 0]]
  /\ readds = [s \in Sessions |-> 0]
  /\ retired = {}
  /\ deactivated = FALSE

\* ------------------------------------------------------------------
\* runToCursor.force: forceRunToCursorImpl, then the status bar and the timer
\* ------------------------------------------------------------------
\* forceRunToCursorImpl from activeRuns.set on: record the state, invoke run-to-cursor
RecordAndRun(ts, sid, saved, ref) ==
  /\ activeRuns' = MapSet(activeRuns, sid, RunState(saved, 0, ref, FALSE))
  /\ tasks' = Append(ts, Task("force", sid, "runToCursor", NoRequest, saved, 0))
  /\ retired' = IF Has(activeRuns, sid) THEN retired \cup {readds[sid]} ELSE retired
  /\ readds' = [readds EXCEPT ![sid] = 0]

\* a start is the first of its force-run when the session has no state and no
\* other start of the session is still ahead of its activeRuns.set
FreshStart(sid) ==
  /\ ~Has(activeRuns, sid)
  /\ \A i \in 1..Len(tasks) :
       ~(tasks[i].kind = "force" /\ tasks[i].sid = sid /\ tasks[i].pc = "suppress")

Ended(sid) == sid \in Sessions /\ sessionInfo[sid].ended
HasCustomRequest(sid) == sid \in Sessions /\ sessionInfo[sid].customRequest

\* history: what a force-run starts from
Began(sid, rtc) ==
  [pre |-> store, rtc |-> rtc,
   cfg |-> IF CacheHas(exceptionCache, sid) THEN exceptionCache[sid] ELSE NoConfig,
   cont |-> FALSE,
   base |-> IF Len(activeRuns) = 0 THEN store ELSE epoch[activeRuns[1].id].base,
   own |-> 0]

\* history: a no-op timer is scheduled while the force-run of sid is recorded
Scheduled(ep, sid) == [ep EXCEPT ![sid].own = @ + 1]
\* history: a timer of sid fires; timers fire in the order they were scheduled, so
\* those left over from earlier force-runs fire first
StaleTimer(ep, tm, sid) == tm[sid] > ep[sid].own
Fired(ep, tm, sid) == IF StaleTimer(ep, tm, sid) THEN ep ELSE [ep EXCEPT ![sid].own = @ - 1]

\* history: a continue request is observed for a session whose state is recorded
Observed(ep, runs, sid, msg) ==
  IF msg.type = "request" /\ msg.command = "continue" /\ Has(runs, sid)
    THEN [ep EXCEPT ![sid].cont = TRUE]
    ELSE ep

Snapshot_AfterRemoval(st) == <<>>
\* const saved = [...deps.debug.breakpoints]: a copy of the list, taken before
\* the breakpoints are removed
Snapshot(st) == st

NoSessionGiven_Never(sess) == FALSE
\* if (!session)
NoSessionGiven(sess) == sess = NoSession

AlreadyPending_Never(runs, sid) == FALSE
\* the guard against a second start: a force-run is already pending
AlreadyPending(runs, sid) == Has(runs, sid)

ForceCommand(sess) ==
  /\ invocations < MaxInvocations
  /\ ~deactivated /\ UNCHANGED deactivated
  /\ Len(tasks) < MaxTasks
  /\ ~Ended(sess)
  /\ invocations' = invocations + 1
  /\ UNCHANGED <<exceptionCache, sessionInfo>>
  /\ IF NoSessionGiven(sess) THEN
       \* no session: the guidance message; the command then updates the status bar
       /\ lastAct' = Act("force", NoSession, "void", NoRequest, 0, 1, 0)
       /\ statusBarActive' = updateStatusBar(activeRuns)
       /\ UNCHANGED <<store, activeRuns, tasks, timers, epoch, readds, retired>>
     ELSE IF AlreadyPending(activeRuns, sess) THEN
       \* already pending: nothing but the status bar and another timer
       /\ lastAct' = Act("force", sess, "void", NoRequest, 0, 0, 0)
       /\ statusBarActive' = updateStatusBar(activeRuns)
       /\ timers' = [timers EXCEPT ![sess] = @ + 1]
       /\ epoch' = Scheduled(epoch, sess)
       /\ UNCHANGED <<store, activeRuns, tasks, readds, retired>>
     ELSE
       LET saved == Snapshot(store) IN
       /\ store' = RemoveBreakpoints(store, saved)
       /\ UNCHANGED <<timers, statusBarActive>>
       /\ IF HasCustomRequest(sess) /\ CacheHas(exceptionCache, sess) THEN
            /\ tasks' = Append(tasks, Task("force", sess, "suppress",
                                 Request("setExceptionBreakpoints", NoFilters), saved, 0))
            /\ epoch' = IF FreshStart(sess)
                          THEN [epoch EXCEPT ![sess] = Began(sess, 0)]
                          ELSE epoch
            /\ lastAct' = Act("force", sess, "void",
                              Request("setExceptionBreakpoints", NoFilters), 0, 0, 0)
            /\ UNCHANGED <<activeRuns, readds, retired>>
          ELSE
            /\ RecordAndRun(tasks, sess, saved, FALSE)
            /\ epoch' = IF FreshStart(sess)
                          THEN [epoch EXCEPT ![sess] = Began(sess, 1)]
                          ELSE [epoch EXCEPT ![sess].rtc = @ + 1]
            /\ lastAct' = Act("force", sess, "void", NoRequest, 1, 0, 0)

\* the suppression request settles: ok, or rejected (caught and logged)
ForceSuppressDone(i, ok) ==
  /\ i \in 1..Len(tasks)
  /\ UNCHANGED deactivated
  /\ tasks[i].kind = "force" /\ tasks[i].pc = "suppress"
  /\ RecordAndRun(RemoveAt(tasks, i), tasks[i].sid, tasks[i].saved, SuppressedRef(ok))
  /\ epoch' = [epoch EXCEPT ![tasks[i].sid].rtc = @ + 1]
  /\ lastAct' = After(Act("forceSuppressDone", tasks[i].sid, "void", NoRequest, 1, 0, 0), ok)
  /\ UNCHANGED <<store, exceptionCache, timers, statusBarActive, sessionInfo, invocations>>

\* run-to-cursor resolves: forceRunToCursorImpl returns; the command updates the
\* status bar and schedules the no-op timer if the session is still pending
ForceRunToCursorDone(i) ==
  /\ i \in 1..Len(tasks)
  /\ UNCHANGED deactivated
  /\ tasks[i].kind = "force" /\ tasks[i].pc = "runToCursor"
  /\ tasks' = RemoveAt(tasks, i)
  /\ statusBarActive' = updateStatusBar(activeRuns)
  /\ timers' = IF Has(activeRuns, tasks[i].sid)
                 THEN [timers EXCEPT ![tasks[i].sid] = @ + 1] ELSE timers
  /\ epoch' = IF Has(activeRuns, tasks[i].sid) THEN Scheduled(epoch, tasks[i].sid) ELSE epoch
  /\ lastAct' = Act("forceDone", tasks[i].sid, "void", NoRequest, 0, 0, 0)
  /\ UNCHANGED <<store, activeRuns, exceptionCache, sessionInfo, invocations, readds,
                 retired>>

\* ------------------------------------------------------------------
\* Tracker, onDidSendMessage: maybeRestoreOnAdapterEvent, then the status bar
\* ------------------------------------------------------------------
EffectiveCustomRequest_Always(sid, session, runState) == TRUE
\* effectiveSession?.customRequest, for session ?? runState.sessionRef
EffectiveCustomRequest(sid, session, runState) ==
  IF session = "undefined" THEN runState.sessionRef ELSE HasCustomRequest(sid)

OnDidSendMessage(sid, msg, session) ==
  /\ invocations < MaxInvocations
  /\ ~deactivated /\ UNCHANGED deactivated
  /\ Len(tasks) < MaxTasks
  /\ ~Ended(sid)
  /\ invocations' = invocations + 1
  /\ UNCHANGED <<exceptionCache, timers, sessionInfo, epoch>>
  /\ IF RunStateOf(activeRuns, sid) = Undefined \/ ~IsStoppedEvent(msg) THEN
       /\ lastAct' = Given(Act("message", sid, "false", NoRequest, 0, 0, 0), msg)
       /\ statusBarActive' = updateStatusBar(activeRuns)
       /\ UNCHANGED <<store, activeRuns, tasks, readds, retired>>
     ELSE
       LET runState == RunStateOf(activeRuns, sid)
           custom == EffectiveCustomRequest(sid, session, runState)
           exception == msg.body.reason = "exception" /\ custom
       IN
       IF exception /\ BelowCeiling(runState.continueCount) THEN
         \* auto-continue: count, issue continue, return false once it settles
         LET req == Request("continue", [threadId |-> msg.body.threadId]) IN
         /\ activeRuns' = MapSet(activeRuns, sid, Counted(runState))
         /\ tasks' = Append(tasks, Task("stop", sid, "continue", req, <<>>, 0))
         /\ lastAct' = Via(Given(Act("stop", sid, "pending", req, 0, 0, 0), msg), session)
         /\ UNCHANGED <<store, statusBarActive, readds, retired>>
       ELSE
         \* ordinary stop, or the ceiling is reached (warning): delete, then restore
         LET req == fullRestoreRequest(exceptionCache, sid, custom)
             warn == IF exception THEN 1 ELSE 0
             rest == DeleteShift(tasks, IndexOf(activeRuns, sid))
         IN
         /\ activeRuns' = MapDelete(activeRuns, sid)
         /\ store' = restoreBreakpoints(store, runState.savedBreakpoints)
         /\ retired' = retired \cup {readds[sid] + 1}
         /\ readds' = [readds EXCEPT ![sid] = 0]
         /\ IF req # NoRequest THEN
              /\ tasks' = Append(rest, Task("stop", sid, "restore", req, <<>>, 0))
              /\ lastAct' = Via(Given(Restored(Act("stop", sid, "pending", req, 0, 0, warn),
                                                sid, store), msg), session)
              /\ UNCHANGED statusBarActive
            ELSE
              /\ tasks' = rest
              /\ lastAct' = Via(Given(Restored(Act("stop", sid, "true", NoRequest, 0, 0, warn),
                                                sid, store), msg), session)
              /\ statusBarActive' = updateStatusBar(activeRuns')

\* the continue request settles, ok or rejected: the handler returns false and the
\* tracker updates the status bar; were the rejection not caught, the handler
\* would throw
StopContinueDone(i, ok) ==
  /\ i \in 1..Len(tasks)
  /\ UNCHANGED deactivated
  /\ tasks[i].kind = "stop" /\ tasks[i].pc = "continue"
  /\ tasks' = RemoveAt(tasks, i)
  /\ IF autoContinueSettled(ok) = "resolved"
       THEN /\ statusBarActive' = updateStatusBar(activeRuns)
            /\ lastAct' = After(Act("stopDone", tasks[i].sid, "false", NoRequest, 0, 0, 0), ok)
       ELSE /\ lastAct' = After(Act("stopDone", tasks[i].sid, "error", NoRequest, 0, 0, 0), ok)
            /\ UNCHANGED statusBarActive
  /\ UNCHANGED <<store, activeRuns, exceptionCache, timers, sessionInfo, invocations, epoch,
                 readds, retired>>

\* the exception-filter restore settles, ok or rejected: fullRestore resolves, the
\* handler returns true and the tracker updates the status bar; were fullRestore to
\* reject, the handler would throw
StopRestoreDone(i, ok) ==
  /\ i \in 1..Len(tasks)
  /\ UNCHANGED deactivated
  /\ tasks[i].kind = "stop" /\ tasks[i].pc = "restore"
  /\ tasks' = RemoveAt(tasks, i)
  /\ IF fullRestoreSettled(ok) = "resolved"
       THEN /\ statusBarActive' = updateStatusBar(activeRuns)
            /\ lastAct' = After(Act("stopDone", tasks[i].sid, "true", NoRequest, 0, 0, 0), ok)
       ELSE /\ lastAct' = After(Act("stopDone", tasks[i].sid, "error", NoRequest, 0, 0, 0), ok)
            /\ UNCHANGED statusBarActive
  /\ UNCHANGED <<store, activeRuns, exceptionCache, timers, sessionInfo, invocations, epoch,
                 readds, retired>>

\* ------------------------------------------------------------------
\* Tracker, onWillReceiveMessage
\* ------------------------------------------------------------------
\* a request of the host itself
OnWillReceiveMessage(sid, msg) ==
  /\ invocations < MaxInvocations
  /\ ~deactivated /\ UNCHANGED deactivated
  /\ ~Ended(sid)
  /\ invocations' = invocations + 1
  /\ exceptionCache' = cacheExceptionFilters(exceptionCache, activeRuns, sid, msg)
  /\ activeRuns' = markContinue(activeRuns, sid, msg)
  /\ lastAct' = Given(Act("willReceive", sid, "void", NoRequest, 0, 0, 0), msg)
  /\ epoch' = Observed(epoch, activeRuns, sid, msg)
  /\ UNCHANGED <<store, tasks, timers, statusBarActive, sessionInfo, readds, retired>>

\* a request the extension issued with customRequest, on its way to the adapter;
\* the adapter of a session that has terminated receives nothing any more
ObserveOwnRequest(i) ==
  /\ i \in 1..Len(tasks)
  /\ UNCHANGED deactivated
  /\ tasks[i].req.type = "request" /\ ~tasks[i].seen
  /\ ~Ended(tasks[i].sid)
  /\ tasks' = [tasks EXCEPT ![i].seen = TRUE]
  /\ exceptionCache' =
       cacheExceptionFilters(exceptionCache, activeRuns, tasks[i].sid, tasks[i].req)
  /\ activeRuns' = markContinue(activeRuns, tasks[i].sid, tasks[i].req)
  /\ lastAct' = Given(Act("willReceiveOwn", tasks[i].sid, "void", NoRequest, 0, 0, 0),
                       tasks[i].req)
  /\ epoch' = Observed(epoch, activeRuns, tasks[i].sid, tasks[i].req)
  /\ UNCHANGED <<store, timers, statusBarActive, sessionInfo, invocations, readds, retired>>

\* ------------------------------------------------------------------
\* runToCursor.cancelForceRun: cancelAllPendingRestores, then the status bar
\* ------------------------------------------------------------------
\* The loop of cancelAllPendingRestores from iterator position k, up to the first
\* fullRestore that awaits a request or to the end of the map: the store it leaves,
\* the sessions it restored, the request it stops at (done: the loop ended), and
\* the session it restored last with the store that restore found.
RECURSIVE CancelScan(_, _, _, _, _, _, _)
CancelScan(runs, cache, st, k, restored, last, leftover) ==
  IF k >= Len(runs)
    THEN [store |-> st, iter |-> k, req |-> NoRequest, restored |-> restored,
          done |-> TRUE, sid |-> "none", last |-> last, leftover |-> leftover]
    ELSE LET e == runs[k + 1]
             st2 == restoreBreakpoints(st, e.st.savedBreakpoints)
             req == fullRestoreRequest(cache, e.id, e.st.sessionRef)
         IN IF req # NoRequest
              THEN [store |-> st2, iter |-> k + 1, req |-> req,
                    restored |-> restored \cup {e.id}, done |-> FALSE, sid |-> e.id,
                    last |-> e.id, leftover |-> st]
              ELSE CancelScan(runs, cache, st2, k + 1, restored \cup {e.id}, e.id, st)

cancelAll_ClearsStoreFirst(runs, cache, st, k) ==
  CancelScan(runs, cache, <<>>, k, {}, "none", <<>>)
cancelAll_RestoresWhenEmpty(runs, cache, st, k) ==
  IF Len(runs) = 0
    THEN [CancelScan(runs, cache, st, k, {}, "none", <<>>)
            EXCEPT !.store = restoreBreakpoints(st, <<>>)]
    ELSE CancelScan(runs, cache, st, k, {}, "none", <<>>)
cancelAllPendingRestores(runs, cache, st, k) ==
  CancelScan(runs, cache, st, k, {}, "none", <<>>)

\* cancelAllPendingRestores run from position k to the end of its loop, every
\* awaited request settled and no other handler in between: the store it leaves
\* and the requests it issues, in order
RECURSIVE CancelAllToEnd(_, _, _, _, _)
CancelAllToEnd(runs, cache, st, k, reqs) ==
  LET r == cancelAllPendingRestores(runs, cache, st, k)
  IN IF r.done THEN [store |-> r.store, reqs |-> reqs]
     ELSE CancelAllToEnd(runs, cache, r.store, r.iter, Append(reqs, r.req))

\* the effect of one stretch of the cancel command that starts at position k; ok:
\* whether the request it resumes from resolved
CancelRun(ts, k, op, ok) ==
  LET r == cancelAllPendingRestores(activeRuns, exceptionCache, store, k)
      counted == [s \in Sessions |-> IF s \in r.restored THEN readds[s] + 1 ELSE readds[s]]
  IN
  /\ store' = r.store
  /\ IF r.done THEN
       \* activeRuns.clear(), then updateStatusBar()
       /\ activeRuns' = <<>>
       /\ tasks' = ClearShift(ts)
       /\ statusBarActive' = updateStatusBar(<<>>)
       /\ retired' = retired \cup {counted[activeRuns[j].id] : j \in 1..Len(activeRuns)}
       /\ readds' = [s \in Sessions |-> IF Has(activeRuns, s) THEN 0 ELSE counted[s]]
       /\ lastAct' = RestoredAll(After(Restored(Act(op, "none", "void", NoRequest, 0, 0, 0),
                                                 r.last, r.leftover), ok), r.restored)
     ELSE
       /\ tasks' = Append(ts, Task("cancel", r.sid, "restore", r.req, <<>>, r.iter))
       /\ readds' = counted
       /\ lastAct' = RestoredAll(After(Restored(Act(op, r.sid, "pending", r.req, 0, 0, 0),
                                                 r.last, r.leftover), ok), r.restored)
       /\ UNCHANGED <<activeRuns, statusBarActive, retired>>

CancelCommand ==
  /\ invocations < MaxInvocations
  /\ ~deactivated /\ UNCHANGED deactivated
  /\ Len(tasks) < MaxTasks
  /\ invocations' = invocations + 1
  /\ CancelRun(tasks, 0, "cancel", TRUE)
  /\ UNCHANGED <<exceptionCache, timers, sessionInfo, epoch>>

\* an exception-filter restore of the loop settles, ok or rejected: fullRestore
\* resolves and the loop goes on; were fullRestore to reject, the loop and the
\* command would end there
CancelRestoreDone(i, ok) ==
  /\ i \in 1..Len(tasks)
  /\ UNCHANGED deactivated
  /\ tasks[i].kind = "cancel"
  /\ IF fullRestoreSettled(ok) = "resolved"
       THEN CancelRun(RemoveAt(tasks, i), tasks[i].iter, "cancelResume", ok)
       ELSE /\ tasks' = RemoveAt(tasks, i)
            /\ lastAct' = After(Act("cancelResume", tasks[i].sid, "error", NoRequest, 0, 0, 0), ok)
            /\ UNCHANGED <<store, activeRuns, statusBarActive, readds, retired>>
  /\ UNCHANGED <<exceptionCache, timers, sessionInfo, invocations, epoch>>

\* ------------------------------------------------------------------
\* The no-op timer of runToCursor.force
\* ------------------------------------------------------------------
NoOpDetected_Never(runs, sid) == FALSE
\* runState && !runState.didContinue
NoOpDetected(runs, sid) == Has(runs, sid) /\ ~Get(runs, sid).didContinue

TimerFire(sid) ==
  /\ timers[sid] > 0
  /\ UNCHANGED deactivated
  /\ Len(tasks) < MaxTasks
  /\ timers' = [timers EXCEPT ![sid] = @ - 1]
  /\ epoch' = Fired(epoch, timers, sid)
  /\ UNCHANGED <<exceptionCache, sessionInfo, invocations>>
  /\ IF NoOpDetected(activeRuns, sid) THEN
       LET runState == Get(activeRuns, sid)
           req == fullRestoreRequest(exceptionCache, sid, runState.sessionRef)
           rest == DeleteShift(tasks, IndexOf(activeRuns, sid))
       IN
       /\ activeRuns' = MapDelete(activeRuns, sid)
       /\ store' = restoreBreakpoints(store, runState.savedBreakpoints)
       /\ retired' = retired \cup {readds[sid] + 1}
       /\ readds' = [readds EXCEPT ![sid] = 0]
       /\ IF req # NoRequest THEN
            /\ tasks' = Append(rest, Task("timer", sid, "restore", req, <<>>, 0))
            /\ lastAct' = Restored(Act("timer", sid, "pending", req, 0, 0, 0), sid, store)
            /\ UNCHANGED statusBarActive
          ELSE
            /\ tasks' = rest
            /\ lastAct' = Restored(Act("timer", sid, "void", NoRequest, 0, 0, 0), sid, store)
            /\ statusBarActive' = updateStatusBar(activeRuns')
     ELSE
       /\ lastAct' = Act("timerIdle", sid, "void", NoRequest, 0, 0, 0)
       /\ UNCHANGED <<store, activeRuns, tasks, statusBarActive, readds, retired>>

\* the exception-filter restore of the timer callback settles, ok or rejected
TimerRestoreDone(i, ok) ==
  /\ i \in 1..Len(tasks)
  /\ UNCHANGED deactivated
  /\ tasks[i].kind = "timer"
  /\ tasks' = RemoveAt(tasks, i)
  /\ IF fullRestoreSettled(ok) = "resolved"
       THEN /\ statusBarActive' = updateStatusBar(activeRuns)
            /\ lastAct' = After(Act("timerDone", tasks[i].sid, "void", NoRequest, 0, 0, 0), ok)
       ELSE /\ lastAct' = After(Act("timerDone", tasks[i].sid, "error", NoRequest, 0, 0, 0), ok)
            /\ UNCHANGED statusBarActive
  /\ UNCHANGED <<store, activeRuns, exceptionCache, timers, sessionInfo, invocations, epoch,
                 readds, retired>>

\* ------------------------------------------------------------------
\* onDidTerminateDebugSession
\* ------------------------------------------------------------------
OnDidTerminateDebugSession(sid) ==
  /\ invocations < MaxInvocations
  /\ ~deactivated /\ UNCHANGED deactivated
  /\ ~Ended(sid)
  /\ invocations' = invocations + 1
  /\ sessionInfo' = [sessionInfo EXCEPT ![sid].ended = TRUE]
  /\ IF Has(activeRuns, sid) THEN
       /\ activeRuns' = MapDelete(activeRuns, sid)
       /\ store' = restoreBreakpoints(store, Get(activeRuns, sid).savedBreakpoints)
       /\ tasks' = DeleteShift(tasks, IndexOf(activeRuns, sid))
       /\ retired' = retired \cup {readds[sid] + 1}
       /\ readds' = [readds EXCEPT ![sid] = 0]
     ELSE UNCHANGED <<activeRuns, store, tasks, retired, readds>>
  /\ exceptionCache' = CacheDelete(exceptionCache, sid)
  /\ statusBarActive' = updateStatusBar(activeRuns')
  /\ lastAct' = IF Has(activeRuns, sid)
                  THEN Restored(Act("terminate", sid, "void", NoRequest, 0, 0, 0), sid, store)
                  ELSE Act("terminate", sid, "void", NoRequest, 0, 0, 0)
  /\ UNCHANGED <<timers, epoch>>

\* ------------------------------------------------------------------
\* deactivate
\* ------------------------------------------------------------------
\* the loop of deactivate over the first k entries: restoreBreakpoints for each
\* state in insertion order, nothing awaited
RECURSIVE RestoreEach(_, _, _)
RestoreEach(runs, st, k) ==
  IF k = 0 THEN st
  ELSE restoreBreakpoints(RestoreEach(runs, st, k - 1), runs[k].st.savedBreakpoints)

deactivate_FirstOnly(runs, st) == RestoreEach(runs, st, IF Len(runs) > 0 THEN 1 ELSE 0)
\* the store deactivate leaves
deactivate(runs, st) == RestoreEach(runs, st, Len(runs))

\* the host deactivates the extension: breakpoints restored synchronously, both
\* maps cleared, no request; the host then disposes the registered handlers
Deactivate ==
  /\ ~deactivated
  /\ invocations < MaxInvocations
  /\ invocations' = invocations + 1
  /\ deactivated' = TRUE
  /\ store' = deactivate(activeRuns, store)
  /\ activeRuns' = <<>>
  /\ exceptionCache' = [s \in {} |-> NoConfig]
  /\ tasks' = ClearShift(tasks)
  /\ retired' = retired \cup {readds[activeRuns[j].id] + 1 : j \in 1..Len(activeRuns)}
  /\ readds' = [s \in Sessions |-> IF Has(activeRuns, s) THEN 0 ELSE readds[s]]
  /\ lastAct' = IF Len(activeRuns) > 0
                  THEN Restored(Act("deactivate", "none", "void", NoRequest, 0, 0, 0),
                                activeRuns[Len(activeRuns)].id,
                                RestoreEach(activeRuns, store, Len(activeRuns) - 1))
                  ELSE Act("deactivate", "none", "void", NoRequest, 0, 0, 0)
  /\ UNCHANGED <<timers, statusBarActive, sessionInfo, epoch>>

\* ------------------------------------------------------------------
\* The host: the user or run-to-cursor adds a breakpoint to the store
\* ------------------------------------------------------------------
HostAddsBreakpoint(b) ==
  /\ invocations < MaxInvocations
  /\ UNCHANGED deactivated
  /\ b \notin Range(store)
  /\ invocations' = invocations + 1
  /\ store' = Append(store, b)
  /\ lastAct' = Act("hostAdd", "none", "void", NoRequest, 0, 0, 0)
  /\ UNCHANGED <<activeRuns, exceptionCache, tasks, timers, statusBarActive, sessionInfo,
                 epoch, readds, retired>>

\* ------------------------------------------------------------------
\* Specifications
\* ------------------------------------------------------------------
\* the messages that reach each branch of the two tracker callbacks
BranchAdapterMessages ==
  {Event("stopped", "breakpoint"), Event("stopped", "exception"), Event("terminated", "none")}
BranchHostMessages ==
  {Request("setExceptionBreakpoints", UncaughtOnly),
   Request("setExceptionBreakpoints", RaisedIf),
   Request("continue", [threadId |-> 1])}

\* every interleaving of the handlers, one session; the user has two
\* breakpoints, and the host has configured the uncaught filter or nothing yet
Init ==
  /\ InitFor({"s1"}, SUBSET {"s1"})
  /\ store = <<"A", "B">>
  /\ \A s \in DOMAIN exceptionCache : exceptionCache[s] = UncaughtOnly
Next ==
  \/ \E sess \in {"s1", NoSession} : ForceCommand(sess)
  \/ \E msg \in BranchAdapterMessages, session \in StopSessionArgs :
       OnDidSendMessage("s1", msg, session)
  \/ \E msg \in BranchHostMessages : OnWillReceiveMessage("s1", msg)
  \/ CancelCommand
  \/ TimerFire("s1")
  \/ OnDidTerminateDebugSession("s1")
  \/ Deactivate
  \/ \E b \in HostBreakpoints : HostAddsBreakpoint(b)
  \/ \E i \in 1..Len(tasks), ok \in BOOLEAN : ForceSuppressDone(i, ok)
  \/ \E i \in 1..Len(tasks) : ForceRunToCursorDone(i)
  \/ \E i \in 1..Len(tasks), ok \in BOOLEAN : StopContinueDone(i, ok)
  \/ \E i \in 1..Len(tasks), ok \in BOOLEAN : StopRestoreDone(i, ok)
  \/ \E i \in 1..Len(tasks), ok \in BOOLEAN : CancelRestoreDone(i, ok)
  \/ \E i \in 1..Len(tasks), ok \in BOOLEAN : TimerRestoreDone(i, ok)
  \/ \E i \in 1..Len(tasks) : ObserveOwnRequest(i)
Spec == Init /\ [][Next]_vars

\* no handler is suspended
Quiescent == tasks = <<>>

\* the handlers one after the other, each run to completion before the next event
\* is dispatched (the requests they issue still pass the tracker); two sessions,
\* the second one without customRequest
InitSeq == InitFor(Sessions, {{"s2"}})
NextSeq ==
  \/ Quiescent /\ \E sess \in SessionArgs : ForceCommand(sess)
  \/ Quiescent /\ \E sid \in Sessions, msg \in AdapterMessages, session \in StopSessionArgs :
                    OnDidSendMessage(sid, msg, session)
  \/ Quiescent /\ \E sid \in Sessions, msg \in HostMessagesSeq : OnWillReceiveMessage(sid, msg)
  \/ Quiescent /\ CancelCommand
  \/ Quiescent /\ \E sid \in Sessions : TimerFire(sid)
  \/ Quiescent /\ \E sid \in Sessions : OnDidTerminateDebugSession(sid)
  \/ Quiescent /\ Deactivate
  \/ Quiescent /\ \E b \in HostBreakpoints : HostAddsBreakpoint(b)
  \/ \E i \in 1..Len(tasks), ok \in BOOLEAN : ForceSuppressDone(i, ok)
  \/ \E i \in 1..Len(tasks) : ForceRunToCursorDone(i)
  \/ \E i \in 1..Len(tasks), ok \in BOOLEAN : StopContinueDone(i, ok)
  \/ \E i \in 1..Len(tasks), ok \in BOOLEAN : StopRestoreDone(i, ok)
  \/ \E i \in 1..Len(tasks), ok \in BOOLEAN : CancelRestoreDone(i, ok)
  \/ \E i \in 1..Len(tasks), ok \in BOOLEAN : TimerRestoreDone(i, ok)
  \/ \E i \in 1..Len(tasks) : ObserveOwnRequest(i)
SpecSeq == InitSeq /\ [][NextSeq]_vars

\* the handlers one after the other, two sessions, from a state in which the force
\* command of session s1 has completed and some exception stops were auto-continued: the
\* state is recorded with its counter (the continue requests of the auto-continues
\* have been observed), the no-op timer is scheduled, run-to-cursor has put its
\* temporary breakpoint into the store
InitRun ==
  \E c \in 0..MAX_EXCEPTION_CONTINUES, ref \in BOOLEAN, cont \in BOOLEAN,
     custom \in BOOLEAN, cached \in BOOLEAN :
    /\ cont = (c > 0)
    /\ ref => (custom /\ cached)
    /\ c > 0 => custom
    /\ store = <<"T">>
    /\ activeRuns = <<[id |-> "s1", st |-> RunState(<<"A", "B">>, c, ref, cont)]>>
    /\ exceptionCache = [s \in (IF cached THEN {"s1"} ELSE {}) |-> UncaughtOnly]
    /\ tasks = <<>>
    /\ timers = [s \in Sessions |-> IF s = "s1" THEN 1 ELSE 0]
    /\ statusBarActive = TRUE
    /\ sessionInfo = [s \in Sessions |-> [customRequest |-> custom, ended |-> FALSE]]
    /\ invocations = 0
    /\ lastAct = Act("forceDone", "s1", "void", NoRequest, 0, 0, 0)
    /\ epoch = [s \in Sessions |->
                  IF s = "s1"
                    THEN [pre |-> <<"A", "B">>, rtc |-> 1,
                          cfg |-> IF cached THEN UncaughtOnly ELSE NoConfig,
                          cont |-> cont, base |-> <<"A", "B">>, own |-> 1]
                    ELSE [pre |-> <<>>, rtc |-> 0, cfg |-> NoConfig, cont |-> FALSE,
                          base |-> <<>>, own |-> 0]]
    /\ readds = [s \in Sessions |-> 0]
    /\ retired = {}
  /\ deactivated = FALSE
SpecRun == InitRun /\ [][NextSeq]_vars

\* every interleaving of starts, terminations, timers and the cancel command, two
\* sessions, from a state in which the force command of s1 has completed with
\* its exception filters suppressed, so that cancelAll awaits a request for s1;
\* s2 may have a cached configuration as well
InitCancel ==
  \E cached2 \in BOOLEAN :
    /\ store = <<"T">>
    /\ activeRuns = <<[id |-> "s1", st |-> RunState(<<"A", "B">>, 0, TRUE, TRUE)]>>
    /\ exceptionCache = [s \in (IF cached2 THEN Sessions ELSE {"s1"}) |-> UncaughtOnly]
    /\ tasks = <<>>
    /\ timers = [s \in Sessions |-> IF s = "s1" THEN 1 ELSE 0]
    /\ statusBarActive = TRUE
    /\ sessionInfo = [s \in Sessions |-> [customRequest |-> TRUE, ended |-> FALSE]]
    /\ invocations = 0
    /\ lastAct = Act("forceDone", "s1", "void", NoRequest, 0, 0, 0)
    /\ epoch = [s \in Sessions |->
                  IF s = "s1"
                    THEN [pre |-> <<"A", "B">>, rtc |-> 1, cfg |-> UncaughtOnly,
                          cont |-> TRUE, base |-> <<"A", "B">>, own |-> 1]
                    ELSE [pre |-> <<>>, rtc |-> 0, cfg |-> NoConfig, cont |-> FALSE,
                          base |-> <<>>, own |-> 0]]
    /\ readds = [s \in Sessions |-> 0]
    /\ retired = {}
    /\ deactivated = FALSE
NextCancel ==
  \/ \E sess \in Sessions : ForceCommand(sess)
  \/ CancelCommand
  \/ \E sid \in Sessions : OnDidTerminateDebugSession(sid)
  \/ \E sid \in Sessions : TimerFire(sid)
  \/ \E i \in 1..Len(tasks), ok \in BOOLEAN : ForceSuppressDone(i, ok)
  \/ \E i \in 1..Len(tasks) : ForceRunToCursorDone(i)
  \/ \E i \in 1..Len(tasks), ok \in BOOLEAN : CancelRestoreDone(i, ok)
  \/ \E i \in 1..Len(tasks), ok \in BOOLEAN : TimerRestoreDone(i, ok)
  \/ \E i \in 1..Len(tasks) : ObserveOwnRequest(i)
SpecCancel == InitCancel /\ [][NextCancel]_vars

\* every interleaving of starts, stops, timers and the cancel command of s1, from
\* the states in which its force command has completed and some exception stops
\* were auto-continued
NextStops ==
  \/ ForceCommand("s1")
  \/ \E msg \in BranchAdapterMessages, session \in StopSessionArgs :
       OnDidSendMessage("s1", msg, session)
  \/ CancelCommand
  \/ TimerFire("s1")
  \/ \E i \in 1..Len(tasks), ok \in BOOLEAN : ForceSuppressDone(i, ok)
  \/ \E i \in 1..Len(tasks) : ForceRunToCursorDone(i)
  \/ \E i \in 1..Len(tasks), ok \in BOOLEAN : StopContinueDone(i, ok)
  \/ \E i \in 1..Len(tasks), ok \in BOOLEAN : StopRestoreDone(i, ok)
  \/ \E i \in 1..Len(tasks), ok \in BOOLEAN : CancelRestoreDone(i, ok)
  \/ \E i \in 1..Len(tasks), ok \in BOOLEAN : TimerRestoreDone(i, ok)
  \/ \E i \in 1..Len(tasks) : ObserveOwnRequest(i)
SpecStops == InitRun /\ [][NextStops]_vars

\* what the event loop and the host guarantee: a timer that is due fires, and a
\* request or command a handler awaits settles, so the handler resumes
Fairness ==
  /\ \A s \in Sessions : WF_vars(TimerFire(s))
  /\ WF_vars(\E i \in 1..Len(tasks), ok \in BOOLEAN : ForceSuppressDone(i, ok))
  /\ WF_vars(\E i \in 1..Len(tasks) : ForceRunToCursorDone(i))
  /\ WF_vars(\E i \in 1..Len(tasks), ok \in BOOLEAN : StopContinueDone(i, ok))
  /\ WF_vars(\E i \in 1..Len(tasks), ok \in BOOLEAN : StopRestoreDone(i, ok))
  /\ WF_vars(\E i \in 1..Len(tasks), ok \in BOOLEAN : CancelRestoreDone(i, ok))
  /\ WF_vars(\E i \in 1..Len(tasks), ok \in BOOLEAN : TimerRestoreDone(i, ok))

\* every interleaving of the handlers, one session, under that scheduling
SpecLive == Init /\ [][Next]_vars /\ Fairness

\* every interleaving of starts, stops, continue requests, timers and the
\* termination of s1, under that scheduling
NextEnd ==
  \/ ForceCommand("s1")
  \/ \E reason \in {"breakpoint", "exception"}, session \in StopSessionArgs :
       OnDidSendMessage("s1", Event("stopped", reason), session)
  \/ OnWillReceiveMessage("s1", Request("continue", [threadId |-> 1]))
  \/ TimerFire("s1")
  \/ OnDidTerminateDebugSession("s1")
  \/ \E i \in 1..Len(tasks), ok \in BOOLEAN : ForceSuppressDone(i, ok)
  \/ \E i \in 1..Len(tasks) : ForceRunToCursorDone(i)
  \/ \E i \in 1..Len(tasks), ok \in BOOLEAN : StopContinueDone(i, ok)
  \/ \E i \in 1..Len(tasks), ok \in BOOLEAN : StopRestoreDone(i, ok)
  \/ \E i \in 1..Len(tasks), ok \in BOOLEAN : TimerRestoreDone(i, ok)
  \/ \E i \in 1..Len(tasks) : ObserveOwnRequest(i)
SpecEnd == Init /\ [][NextEnd]_vars /\ Fairness

\* ------------------------------------------------------------------
\* Properties
\* ------------------------------------------------------------------
StoppedAt(act) == act.op \in {"stop", "message"} /\ act.in = Event("stopped", "breakpoint")
RestoreTaskOf(sid) ==
  \E i \in 1..Len(tasks) :
    tasks[i].kind = "stop" /\ tasks[i].pc = "restore" /\ tasks[i].sid = sid

\* C1: round trip of one session, handlers run one after the other.  A start that
\* passes its guards leaves the store empty; when it records the state, the saved
\* list is the store from before the start, the counter is 0 and run-to-cursor has
\* been issued once; the stop with a non-exception reason that follows returns true
\* (at once, or when its restore request settles), leaves the store equal to the
\* list from before the start and clears the state.
C1_RoundTrip ==
  /\ (lastAct.op = "force" /\ (lastAct.rtc = 1 \/ lastAct.req # NoRequest))
       => store = <<>>
  /\ lastAct.rtc = 1
       => /\ Has(activeRuns, lastAct.sid)
          /\ Get(activeRuns, lastAct.sid).savedBreakpoints = epoch[lastAct.sid].pre
          /\ Get(activeRuns, lastAct.sid).continueCount = 0
          /\ epoch[lastAct.sid].rtc = 1
  /\ (lastAct.op = "stop" /\ lastAct.in.body.reason # "exception")
       => /\ lastAct.ret = "true" \/ (lastAct.ret = "pending" /\ RestoreTaskOf(lastAct.sid))
          /\ store = epoch[lastAct.sid].pre
          /\ ~Has(activeRuns, lastAct.sid)
  /\ (lastAct.op = "stopDone" /\ ~Has(activeRuns, lastAct.sid))
       => lastAct.ret = "true" /\ store = epoch[lastAct.sid].pre
C1_Witness ==
  /\ lastAct.op = "stop" /\ lastAct.ret = "true" /\ lastAct.in.body.reason = "breakpoint"
  /\ store = <<"A", "B">>
  /\ lastAct.leftover = <<"T">>
  /\ epoch[lastAct.sid].rtc = 1

\* C2: every step that runs a restore (stop event, cancelAll, no-op timer,
\* termination) leaves the store equal to the saved list of the session it
\* restored (for cancelAll: the last one it restored), in the saved order,
\* whatever the store held before.
C2_RestoreExact ==
  [][lastAct'.restored # "none"
       => store' = Get(activeRuns, lastAct'.restored).savedBreakpoints]_vars
C2_Witness ==
  /\ lastAct.restored # "none"
  /\ "A" \in Range(lastAct.leftover) /\ "T" \in Range(lastAct.leftover)
  /\ store = <<"A", "B">>

\* C3: the saved list of every recorded force-run is re-added exactly once: no
\* state leaves activeRuns with a re-add count other than 1, and no state that is
\* still recorded has been re-added twice.
C3_RestoredExactlyOnce ==
  /\ retired \subseteq {1}
  /\ \A s \in Sessions : readds[s] <= 1

\* C4: a second start during the first never replaces the snapshot: the saved
\* list of a session's state is the store from before the first start, and
\* run-to-cursor is issued at most once per force-run.
C4_SnapshotNeverReplaced ==
  \A s \in Sessions :
    /\ Has(activeRuns, s) => Get(activeRuns, s).savedBreakpoints = epoch[s].pre
    /\ epoch[s].rtc <= 1

\* C5: handlers run one after the other.  A start for a session whose state is
\* recorded changes neither the state (saved list, counter) nor the store, issues
\* no request and no run-to-cursor; the saved list is still the store from before
\* the first start and run-to-cursor has been issued once in total.
C5_SecondStartNoop ==
  [][\A s \in Sessions :
       (Has(activeRuns, s) /\ lastAct'.op = "force" /\ lastAct'.sid = s)
         => /\ activeRuns' = activeRuns
            /\ store' = store
            /\ tasks' = tasks
            /\ lastAct'.rtc = 0 /\ lastAct'.req = NoRequest
            /\ Get(activeRuns', s).savedBreakpoints = epoch'[s].pre
            /\ epoch'[s].rtc = 1]_vars
C5_Witness ==
  /\ lastAct.op = "force" /\ lastAct.sid = "s1" /\ lastAct.rtc = 0
  /\ lastAct.req = NoRequest
  /\ Has(activeRuns, "s1")
  /\ store = <<"T">>
  /\ Get(activeRuns, "s1").savedBreakpoints = <<"A", "B">>

\* C6: a stopped event with a non-exception reason for a pending session removes
\* the state and re-adds the saved list in the same step, before any await; the
\* same event for a session without state (the second of two stops, back to back
\* or during the first one's restore request) returns false, issues no request and
\* changes neither the store, the states nor the cache.
C6_SecondStopNoop ==
  [][\A s \in Sessions :
       (StoppedAt(lastAct') /\ lastAct'.sid = s)
         => IF Has(activeRuns, s)
              THEN /\ lastAct'.op = "stop" /\ lastAct'.ret \in {"true", "pending"}
                   /\ ~Has(activeRuns', s)
                   /\ store' = Get(activeRuns, s).savedBreakpoints
              ELSE /\ lastAct'.ret = "false" /\ lastAct'.req = NoRequest
                   /\ store' = store /\ activeRuns' = activeRuns
                   /\ exceptionCache' = exceptionCache /\ tasks' = tasks]_vars
C6_Witness ==
  /\ StoppedAt(lastAct) /\ lastAct.op = "message" /\ lastAct.ret = "false"
  /\ RestoreTaskOf(lastAct.sid)
  /\ store = <<"A", "B">>
  /\ retired = {1}

\* C7: for a session without state, a stop event, a firing of its no-op timer and
\* a cancelAll with nothing pending leave the store as it is and issue no request.
C7_ClearedNoEffect ==
  [][/\ \A s \in Sessions :
          (~Has(activeRuns, s) /\ lastAct'.sid = s
             /\ lastAct'.op \in {"stop", "message", "timer", "timerIdle"})
            => store' = store /\ lastAct'.req = NoRequest /\ tasks' = tasks
     /\ (activeRuns = <<>> /\ lastAct'.op \in {"cancel", "cancelResume"})
            => store' = store /\ lastAct'.req = NoRequest /\ Len(tasks') <= Len(tasks)
    ]_vars
C7_Witness ==
  /\ retired = {1}
  /\ activeRuns = <<>>
  /\ lastAct.op \in {"timerIdle", "cancel"}
  /\ store = <<"A", "B">>

\* C8: handlers run one after the other.  The request start issues is
\* setExceptionBreakpoints with no filters, and the setExceptionBreakpoints
\* request of the stop that follows carries the configuration that was cached
\* when the force-run began.
C8_FilterRoundTrip ==
  /\ (lastAct.op = "force" /\ lastAct.req # NoRequest)
       => lastAct.req = Request("setExceptionBreakpoints", NoFilters)
  /\ (lastAct.op = "stop" /\ lastAct.restored # "none" /\ lastAct.req # NoRequest)
       => lastAct.req = Request("setExceptionBreakpoints", epoch[lastAct.sid].cfg)

\* C9: handlers run one after the other.  While a session's force-run is
\* recorded, its cache entry is the configuration cached when the force-run
\* began: the suppression request of start is not cached.
C9_SuppressionNotCached ==
  \A s \in Sessions :
    (Has(activeRuns, s) /\ epoch[s].cfg # NoConfig)
      => CacheHas(exceptionCache, s) /\ exceptionCache[s] = epoch[s].cfg

\* C10: a request observed by the tracker for a session that has a state leaves
\* the exception cache as it is.
C10_CacheFrozenWhileActive ==
  [][\A s \in Sessions :
       (Has(activeRuns, s) /\ lastAct'.sid = s
          /\ lastAct'.op \in {"willReceive", "willReceiveOwn"})
         => exceptionCache' = exceptionCache]_vars
C10_Witness ==
  /\ lastAct.op = "willReceive"
  /\ lastAct.in = Request("setExceptionBreakpoints", UncaughtOnly)
  /\ Has(activeRuns, lastAct.sid)
  /\ CacheHas(exceptionCache, lastAct.sid)
  /\ exceptionCache[lastAct.sid] = RaisedIf

\* C11: handlers run one after the other.  A request observed by the tracker for a
\* session without state: if it is setExceptionBreakpoints, the session's cache
\* entry becomes exactly the filters of the message (none when it carries none)
\* and its filter options (no options field when the message has none), whatever
\* the entry was before, and no other entry changes; any other request leaves the
\* cache as it is.
C11_CacheReplaced ==
  [][\A s \in Sessions :
       (~Has(activeRuns, s) /\ lastAct'.sid = s
          /\ lastAct'.op \in {"willReceive", "willReceiveOwn"})
         => LET m == lastAct'.in IN
            IF m.command = "setExceptionBreakpoints"
              THEN /\ DOMAIN exceptionCache' = DOMAIN exceptionCache \cup {s}
                   /\ \A x \in DOMAIN exceptionCache \ {s} :
                        exceptionCache'[x] = exceptionCache[x]
                   /\ exceptionCache'[s].filters =
                        (IF "filters" \in DOMAIN m.arguments THEN m.arguments.filters
                                                              ELSE <<>>)
                   /\ IF "filterOptions" \in DOMAIN m.arguments
                        THEN exceptionCache'[s].filterOptions = m.arguments.filterOptions
                        ELSE DOMAIN exceptionCache'[s] = {"filters"}
              ELSE exceptionCache' = exceptionCache]_vars
\* a request without options overwrites an entry that had options
C11_Witness ==
  /\ lastAct.op = "willReceive"
  /\ lastAct.in = Request("setExceptionBreakpoints", UncaughtOnly)
  /\ ~Has(activeRuns, lastAct.sid)
  /\ epoch[lastAct.sid].cfg = RaisedIf
  /\ retired = {1}
  /\ exceptionCache[lastAct.sid] = UncaughtOnly

\* the stop handler has a usable session: the one it was given, or else the
\* reference stored in the state, carries customRequest
UsableSession(s, session) ==
  IF session = "session" THEN sessionInfo[s].customRequest
                         ELSE Get(activeRuns, s).sessionRef
\* the step resumes a stop handler that was suspended at the request of kind pc
ResumesStop(pc) ==
  /\ lastAct'.op = "stopDone"
  /\ \E i \in 1..Len(tasks) :
       /\ tasks[i].kind = "stop" /\ tasks[i].pc = pc /\ tasks[i].sid = lastAct'.sid
       /\ tasks' = RemoveAt(tasks, i)

\* C12: a stopped event with reason exception for a session that has a state
\* with counter 0, 1 or 2 and a usable session issues one request, continue for the
\* thread of the event, raises the counter by one, leaves the store and the saved
\* list as they are, keeps the state, warns nobody, and returns false when the
\* request settles, without changing the store or the states.
C12_AutoContinue ==
  [][/\ \A s \in Sessions :
          ( /\ Has(activeRuns, s)
            /\ lastAct'.op = "stop" /\ lastAct'.sid = s
            /\ lastAct'.in = Event("stopped", "exception")
            /\ UsableSession(s, lastAct'.session)
            /\ Get(activeRuns, s).continueCount \in {0, 1, 2} )
          => /\ lastAct'.req = Request("continue", [threadId |-> lastAct'.in.body.threadId])
             /\ Len(tasks') = Len(tasks) + 1
             /\ tasks'[Len(tasks')].req = lastAct'.req /\ tasks'[Len(tasks')].pc = "continue"
             /\ Has(activeRuns', s)
             /\ Get(activeRuns', s) =
                  [Get(activeRuns, s) EXCEPT !.continueCount = @ + 1]
             /\ store' = store
             /\ lastAct'.warn = 0 /\ lastAct'.restored = "none"
             /\ lastAct'.ret = "pending"
     /\ ResumesStop("continue")
          => lastAct'.ret = "false" /\ lastAct'.req = NoRequest
             /\ store' = store /\ activeRuns' = activeRuns
    ]_vars
\* the third auto-continue: the counter goes from 2 to 3
C12_Witness ==
  /\ lastAct.op = "stop" /\ lastAct.ret = "pending"
  /\ lastAct.req = Request("continue", [threadId |-> 1])
  /\ Has(activeRuns, "s1") /\ Get(activeRuns, "s1").continueCount = 3
  /\ Get(activeRuns, "s1").savedBreakpoints = <<"A", "B">>
  /\ store = <<"T">>

\* C13: a stopped event with reason exception for a session that has a state
\* with counter 3 and a usable session issues no continue request, warns the user
\* once, deletes the state, sets the store to the saved list, issues the
\* exception-filter restore if a configuration is cached, and returns true (at
\* once, or when that request settles).
C13_CeilingRestores ==
  [][/\ \A s \in Sessions :
          ( /\ Has(activeRuns, s)
            /\ lastAct'.op = "stop" /\ lastAct'.sid = s
            /\ lastAct'.in = Event("stopped", "exception")
            /\ UsableSession(s, lastAct'.session)
            /\ Get(activeRuns, s).continueCount = 3 )
          => /\ lastAct'.warn = 1
             /\ ~Has(activeRuns', s)
             /\ store' = Get(activeRuns, s).savedBreakpoints
             /\ lastAct'.restored = s
             /\ IF CacheHas(exceptionCache, s)
                  THEN /\ lastAct'.req = Request("setExceptionBreakpoints", exceptionCache[s])
                       /\ lastAct'.ret = "pending"
                       /\ tasks'[Len(tasks')].pc = "restore"
                  ELSE lastAct'.req = NoRequest /\ lastAct'.ret = "true"
     /\ ResumesStop("restore")
          => lastAct'.ret = "true" /\ lastAct'.warn = 0 /\ lastAct'.req = NoRequest
             /\ store' = store /\ activeRuns' = activeRuns
    ]_vars
C13_Witness ==
  /\ lastAct.op = "stop" /\ lastAct.in = Event("stopped", "exception")
  /\ lastAct.warn = 1 /\ lastAct.ret = "true"
  /\ lastAct.leftover = <<"T">>
  /\ store = <<"A", "B">>
  /\ activeRuns = <<>>

\* C14: for a session that has a state, a message from the adapter that is not a
\* stopped event (the events terminated, exited and output, a response, a request)
\* makes the stop handler return false at once: no request, and the store, the
\* states, the cache and the suspended handlers are unchanged.
C14_OnlyStoppedRestores ==
  [][\A s \in Sessions :
       ( /\ Has(activeRuns, s)
         /\ lastAct'.op \in {"message", "stop"} /\ lastAct'.sid = s
         /\ ~(lastAct'.in.type = "event" /\ lastAct'.in.event = "stopped") )
       => /\ lastAct'.op = "message" /\ lastAct'.ret = "false"
          /\ lastAct'.req = NoRequest /\ lastAct'.restored = "none"
          /\ store' = store /\ activeRuns' = activeRuns
          /\ exceptionCache' = exceptionCache /\ tasks' = tasks]_vars
C14_Witness ==
  /\ lastAct.op = "message" /\ lastAct.ret = "false"
  /\ lastAct.in \in {Event("terminated", "none"), Request("runInTerminal", [threadId |-> 1])}
  /\ Has(activeRuns, lastAct.sid)
  /\ Get(activeRuns, lastAct.sid).savedBreakpoints = <<"A", "B">>
  /\ store = <<"T">>

\* C15: a start without a session shows the guidance message once and does
\* nothing else: no request, no run-to-cursor, and the store, the states, the
\* cache, the suspended handlers and the timers are unchanged.
C15_NoSessionStart ==
  [][(lastAct'.op = "force" /\ lastAct'.sid = NoSession)
       => /\ lastAct'.info = 1
          /\ lastAct'.req = NoRequest /\ lastAct'.rtc = 0 /\ lastAct'.warn = 0
          /\ store' = store /\ activeRuns' = activeRuns
          /\ exceptionCache' = exceptionCache
          /\ tasks' = tasks /\ timers' = timers]_vars
C15_Witness ==
  /\ lastAct.op = "force" /\ lastAct.sid = NoSession /\ lastAct.info = 1
  /\ store = <<"A", "B">>
  /\ activeRuns = <<>> /\ tasks = <<>>

\* C16: handlers run one after the other.  When cancelAll finishes with two
\* sessions pending, no state remains and the store holds the breakpoints of both
\* saved lists, whether the restore requests it awaited resolved or were rejected.
C16_CancelAllRestoresBoth ==
  [][(Len(activeRuns) = 2 /\ lastAct'.op \in {"cancel", "cancelResume"}
        /\ lastAct'.ret = "void")
       => /\ activeRuns' = <<>>
          /\ \A j \in 1..Len(activeRuns) :
               Range(activeRuns[j].st.savedBreakpoints) \subseteq Range(store')]_vars

\* C17: the termination of a session issues no request and suspends nothing; if
\* the session has a state, the state is deleted and the store becomes its saved
\* list in that step, otherwise store and states are unchanged; in both cases the
\* session's cache entry is gone afterwards and the other entries are unchanged.
C17_TerminationSafetyNet ==
  [][\A s \in Sessions :
       (lastAct'.op = "terminate" /\ lastAct'.sid = s)
       => /\ lastAct'.req = NoRequest /\ Len(tasks') = Len(tasks)
          /\ IF Has(activeRuns, s)
               THEN /\ ~Has(activeRuns', s)
                    /\ store' = Get(activeRuns, s).savedBreakpoints
                    /\ lastAct'.restored = s
               ELSE /\ activeRuns' = activeRuns /\ store' = store
                    /\ lastAct'.restored = "none"
          /\ DOMAIN exceptionCache' = DOMAIN exceptionCache \ {s}
          /\ \A x \in DOMAIN exceptionCache' : exceptionCache'[x] = exceptionCache[x]
    ]_vars
C17_Witness ==
  /\ lastAct.op = "terminate" /\ lastAct.restored = "s1"
  /\ "T" \in Range(lastAct.leftover)
  /\ store = <<"A", "B">>
  /\ epoch["s1"].cfg # NoConfig
  /\ ~CacheHas(exceptionCache, "s1")
  /\ ~Has(activeRuns, "s1")

\* C18: when the no-op timer of a session fires and the session has a state: if
\* no continue request has been observed while the force-run was recorded, the
\* state is deleted, the store becomes the saved list and the exception-filter
\* restore is issued when a configuration is cached and a session reference is
\* stored; if a continue request has been observed, the timer issues no request
\* and changes neither the states nor the store.
C18_NoOpTimer ==
  [][\A s \in Sessions :
       (lastAct'.op \in {"timer", "timerIdle"} /\ lastAct'.sid = s /\ Has(activeRuns, s))
       => IF ~epoch[s].cont
            THEN /\ ~Has(activeRuns', s)
                 /\ store' = Get(activeRuns, s).savedBreakpoints
                 /\ lastAct'.restored = s
                 /\ lastAct'.req =
                      (IF CacheHas(exceptionCache, s) /\ Get(activeRuns, s).sessionRef
                         THEN Request("setExceptionBreakpoints", exceptionCache[s])
                         ELSE NoRequest)
            ELSE /\ activeRuns' = activeRuns /\ store' = store
                 /\ lastAct'.req = NoRequest /\ tasks' = tasks]_vars

\* C19: handlers run one after the other.  When the suppression request of a
\* start is rejected, the start goes on without an error: it records the state
\* with the store from before the start as saved list, counter 0 and no session
\* reference, and issues run-to-cursor, once in that force-run.
C19_SuppressionFailure ==
  [][(lastAct'.op = "forceSuppressDone" /\ lastAct'.rejected)
       => LET s == lastAct'.sid IN
          /\ lastAct'.ret = "void"
          /\ Has(activeRuns', s)
          /\ Get(activeRuns', s).savedBreakpoints = epoch'[s].pre
          /\ Get(activeRuns', s).continueCount = 0
          /\ ~Get(activeRuns', s).sessionRef
          /\ lastAct'.rtc = 1 /\ epoch'[s].rtc = 1
          /\ tasks'[Len(tasks')].pc = "runToCursor" /\ tasks'[Len(tasks')].sid = s
          /\ store' = store]_vars
C19_Witness ==
  /\ lastAct.op = "forceSuppressDone" /\ lastAct.rejected
  /\ Has(activeRuns, "s1")
  /\ Get(activeRuns, "s1").savedBreakpoints = <<"A", "B">>
  /\ ~Get(activeRuns, "s1").sessionRef
  /\ epoch["s1"].rtc = 1
  /\ store = <<>>

\* C20: handlers run one after the other.  When the exception-filter restore
\* request is rejected: the stop handler still returns true, with the state gone
\* and the store equal to the list from before the start; cancelAll raises no
\* error, the store holds the saved list of the session whose request was
\* rejected, the loop goes on and at its end no state remains.
C20_RestoreFailure ==
  [][/\ (ResumesStop("restore") /\ lastAct'.rejected)
          => /\ lastAct'.ret = "true"
             /\ ~Has(activeRuns', lastAct'.sid)
             /\ store = epoch[lastAct'.sid].pre
             /\ store' = store /\ activeRuns' = activeRuns
     /\ (lastAct'.op = "cancelResume" /\ lastAct'.rejected)
          => /\ lastAct'.ret \in {"void", "pending"}
             /\ \A i \in 1..Len(tasks) :
                  tasks[i].kind = "cancel"
                    => store = Get(activeRuns, tasks[i].sid).savedBreakpoints
             /\ lastAct'.ret = "void" => activeRuns' = <<>>
             /\ lastAct'.ret = "pending" => tasks'[Len(tasks')].kind = "cancel"
    ]_vars
C20_Witness ==
  /\ lastAct.op = "stopDone" /\ lastAct.rejected /\ lastAct.ret = "true"
  /\ store = <<"A", "B">>
  /\ epoch[lastAct.sid].rtc = 1
  /\ activeRuns = <<>>

\* C21: when the continue request of an auto-continue is rejected, the stop
\* handler returns false without an error, re-adds nothing (the store is
\* unchanged, no restore ran) and leaves every state as it is: the force-run it
\* continued keeps its saved list.
C21_ContinueFailure ==
  [][(ResumesStop("continue") /\ lastAct'.rejected)
       => /\ lastAct'.ret = "false"
          /\ lastAct'.restored = "none" /\ lastAct'.req = NoRequest
          /\ store' = store /\ activeRuns' = activeRuns
          /\ readds' = readds]_vars
C21_Witness ==
  /\ lastAct.op = "stopDone" /\ lastAct.rejected /\ lastAct.ret = "false"
  /\ Has(activeRuns, "s1")
  /\ Get(activeRuns, "s1").savedBreakpoints = <<"A", "B">>
  /\ Get(activeRuns, "s1").continueCount = 3
  /\ store = <<"T">>
  /\ readds["s1"] = 0

\* C22: handlers run one after the other.  After deactivate no state remains and
\* the store holds the breakpoints of the saved list of every session that was
\* pending.
C22_DeactivateRestoresAll ==
  [][lastAct'.op = "deactivate"
       => /\ activeRuns' = <<>>
          /\ \A j \in 1..Len(activeRuns) :
               Range(activeRuns[j].st.savedBreakpoints) \subseteq Range(store')]_vars

\* C23 as stated: deactivate does what cancelAll does: it leaves the same store,
\* issues the same requests (the exception-filter restore of every pending session
\* that has one), clears the states and keeps the exception cache.
C23_DeactivateIsCancelAll ==
  [][lastAct'.op = "deactivate"
       => LET c == CancelAllToEnd(activeRuns, exceptionCache, store, 0, <<>>) IN
          /\ store' = c.store
          /\ activeRuns' = <<>>
          /\ (c.reqs # <<>>) => lastAct'.req = c.reqs[1]
          /\ exceptionCache' = exceptionCache]_vars

\* C23, amended: deactivate leaves the store that cancelAll would leave when run to
\* its end from the same state, and clears the states; unlike cancelAll it issues
\* no request, suspends nothing and clears the exception cache as well.
C23_DeactivateSynchronous ==
  [][lastAct'.op = "deactivate"
       => LET c == CancelAllToEnd(activeRuns, exceptionCache, store, 0, <<>>) IN
          /\ store' = c.store
          /\ activeRuns' = <<>>
          /\ lastAct'.req = NoRequest /\ Len(tasks') = Len(tasks)
          /\ DOMAIN exceptionCache' = {}]_vars
\* a deactivate where cancelAll would have restored the exception filters
C23_Witness ==
  /\ lastAct.op = "deactivate" /\ lastAct.restored = "s1"
  /\ lastAct.leftover = <<"T">>
  /\ store = <<"A", "B">>
  /\ activeRuns = <<>>
  /\ epoch["s1"].cfg # NoConfig /\ sessionInfo["s1"].customRequest
  /\ DOMAIN exceptionCache = {}

\* C24: handlers run one after the other.  While the extension is active, a
\* session's cache entry is removed only by the termination of that session,
\* and changes only when a setExceptionBreakpoints request of the host is
\* observed for the session while it has no state: a start, a stop (restore or
\* auto-continue), cancelAll, the no-op timer and the requests they issue leave
\* every entry as it is.
C24_CacheSurvivesForceRuns ==
  [][\A s \in DOMAIN exceptionCache :
       ( /\ lastAct'.op # "deactivate"
         /\ (s \notin DOMAIN exceptionCache' \/ exceptionCache'[s] # exceptionCache[s]) )
       => \/ lastAct'.op = "terminate" /\ lastAct'.sid = s
          \/ /\ lastAct'.op = "willReceive" /\ lastAct'.sid = s
             /\ lastAct'.in.command = "setExceptionBreakpoints"
             /\ ~Has(activeRuns, s)
             /\ s \in DOMAIN exceptionCache']_vars

\* the steps of the handlers that run for one session: a start, a stop event with
\* its auto-continue or restore, the no-op timer, the termination, and the
\* tracker's view of the requests they issue
SessionOps ==
  {"force", "forceSuppressDone", "forceDone", "stop", "message", "stopDone",
   "timer", "timerIdle", "timerDone", "terminate", "willReceive", "willReceiveOwn"}

\* C25: handlers run one after the other, two sessions.  A step of a handler that
\* runs for session a leaves the state of every other session b (saved list,
\* counter, session reference, continue flag; or the absence of a state) and the
\* cache entry of b (or its absence) as they are.
C25_SessionsPartitioned ==
  [][\A a \in Sessions, b \in Sessions :
       (a # b /\ lastAct'.op \in SessionOps /\ lastAct'.sid = a)
       => /\ IF Has(activeRuns, b)
               THEN Has(activeRuns', b) /\ Get(activeRuns', b) = Get(activeRuns, b)
               ELSE ~Has(activeRuns', b)
          /\ IF CacheHas(exceptionCache, b)
               THEN CacheHas(exceptionCache', b) /\ exceptionCache'[b] = exceptionCache[b]
               ELSE ~CacheHas(exceptionCache', b)]_vars
\* a stop restores session s1 while the force-run of s2, begun earlier, is pending
C25_Witness ==
  /\ lastAct.op = "stop" /\ lastAct.sid = "s1" /\ lastAct.restored = "s1"
  /\ ~Has(activeRuns, "s1")
  /\ Has(activeRuns, "s2")
  /\ Get(activeRuns, "s2").savedBreakpoints = <<"A", "B">>
  /\ CacheHas(exceptionCache, "s2") /\ exceptionCache["s2"] = RaisedIf

\* C26: handlers run one after the other.  A start that passes its guards issues
\* the suppression request exactly when the session has customRequest and a cached
\* configuration; without the request it records a state with no session
\* reference; with it, the state is recorded when the request settles and holds
\* the reference exactly when the request resolved; the reference of a recorded
\* state never changes afterwards.
C26_SessionRefIffSuppressed ==
  [][\A s \in Sessions :
       /\ (lastAct'.op = "force" /\ lastAct'.sid = s /\ ~Has(activeRuns, s))
            => /\ (lastAct'.req = Request("setExceptionBreakpoints", NoFilters))
                    <=> (sessionInfo[s].customRequest /\ CacheHas(exceptionCache, s))
               /\ IF lastAct'.req = NoRequest
                    THEN Has(activeRuns', s) /\ ~Get(activeRuns', s).sessionRef
                    ELSE ~Has(activeRuns', s)
       /\ (lastAct'.op = "forceSuppressDone" /\ lastAct'.sid = s)
            => /\ Has(activeRuns', s)
               /\ Get(activeRuns', s).sessionRef <=> ~lastAct'.rejected
       /\ (Has(activeRuns, s) /\ Has(activeRuns', s))
            => Get(activeRuns', s).sessionRef = Get(activeRuns, s).sessionRef]_vars
\* s2 has no customRequest and its state holds no reference; the suppression
\* request of s1 resolved and its state holds one
C26_Witness ==
  /\ lastAct.op = "forceSuppressDone" /\ lastAct.sid = "s1" /\ ~lastAct.rejected
  /\ Has(activeRuns, "s1") /\ Get(activeRuns, "s1").sessionRef
  /\ Has(activeRuns, "s2") /\ ~Get(activeRuns, "s2").sessionRef
  /\ Get(activeRuns, "s2").savedBreakpoints = <<"A", "B">>
  /\ ~sessionInfo["s2"].customRequest

\* C27: a stopped event, whatever its reason, for a session that has no state
\* returns false at once, issues no request and suspends nothing, and leaves the
\* store, the states and the cache as they are.
C27_UntrackedStopNoop ==
  [][\A s \in Sessions :
       ( /\ ~Has(activeRuns, s)
         /\ lastAct'.op \in {"message", "stop"} /\ lastAct'.sid = s
         /\ lastAct'.in.type = "event" /\ lastAct'.in.event = "stopped" )
       => /\ lastAct'.op = "message" /\ lastAct'.ret = "false"
          /\ lastAct'.req = NoRequest /\ lastAct'.restored = "none"
          /\ lastAct'.warn = 0
          /\ store' = store /\ activeRuns' = activeRuns
          /\ exceptionCache' = exceptionCache /\ tasks' = tasks]_vars
\* an exception stop in a session that never had a force-run, with breakpoints set
C27_Witness ==
  /\ lastAct.op = "message" /\ lastAct.sid = "s1" /\ lastAct.ret = "false"
  /\ lastAct.in = Event("stopped", "exception")
  /\ activeRuns = <<>> /\ retired = {} /\ epoch["s1"].rtc = 0
  /\ sessionInfo["s1"].customRequest /\ CacheHas(exceptionCache, "s1")
  /\ store = <<"A", "B">>

\* C28: the cancel command with no state recorded adds and removes no breakpoint
\* (what the store holds stays, in order), issues no request, suspends nothing,
\* restores no session, and leaves the map of states empty and the cache as it is.
C28_CancelNothingPending ==
  [][(activeRuns = <<>> /\ lastAct'.op = "cancel")
       => /\ store' = store
          /\ lastAct'.req = NoRequest /\ lastAct'.ret = "void"
          /\ lastAct'.restored = "none"
          /\ tasks' = tasks
          /\ activeRuns' = <<>>
          /\ exceptionCache' = exceptionCache
          /\ readds' = readds /\ retired' = retired]_vars
\* no force-run so far, and the store holds a breakpoint the host added
C28_Witness ==
  /\ lastAct.op = "cancel" /\ lastAct.ret = "void"
  /\ activeRuns = <<>> /\ retired = {} /\ epoch["s1"].rtc = 0
  /\ store = <<"A", "B", "T">>
  /\ tasks = <<>>

\* the last suspended handler is the start of session s, waiting at pc
StartWaits(ts, s, pc) ==
  /\ Len(ts) > 0
  /\ ts[Len(ts)].kind = "force" /\ ts[Len(ts)].sid = s /\ ts[Len(ts)].pc = pc

\* C29: handlers run one after the other.  A start that passes its guards either
\* invokes run-to-cursor in its first stretch, with no request, or issues the one
\* suppression request, records nothing yet, and invokes run-to-cursor when that
\* request has settled.  At the step that invokes run-to-cursor the state of the
\* session has just been recorded, as one new entry whose saved list is the store
\* from before the start; no breakpoint of the saved list is in the store; no
\* suppression request of the session is outstanding; run-to-cursor has been
\* invoked once in the force-run and is what the start now waits for.  When it
\* resolves the start does nothing more: no request, store and states unchanged.
C29_RunToCursorLast ==
  [][\A s \in Sessions :
       /\ (lastAct'.sid = s /\ lastAct'.op \in {"force", "forceSuppressDone"}
             /\ lastAct'.rtc = 1)
            => /\ Has(activeRuns', s)
               /\ Len(activeRuns') = Len(activeRuns) + 1
               /\ Get(activeRuns', s).savedBreakpoints = epoch'[s].pre
               /\ Range(Get(activeRuns', s).savedBreakpoints) \cap Range(store') = {}
               /\ \A i \in 1..Len(tasks') :
                    ~(tasks'[i].kind = "force" /\ tasks'[i].sid = s
                        /\ tasks'[i].pc = "suppress")
               /\ StartWaits(tasks', s, "runToCursor")
               /\ epoch'[s].rtc = 1
               /\ lastAct'.req = NoRequest
               /\ lastAct'.op = "forceSuppressDone" => StartWaits(tasks, s, "suppress")
       /\ (lastAct'.sid = s /\ lastAct'.op = "force" /\ ~Has(activeRuns, s)
             /\ lastAct'.rtc = 0)
            => /\ lastAct'.req = Request("setExceptionBreakpoints", NoFilters)
               /\ StartWaits(tasks', s, "suppress")
               /\ Range(store) \cap Range(store') = {}
               /\ activeRuns' = activeRuns
               /\ epoch'[s].rtc = 0
       /\ (lastAct'.sid = s /\ lastAct'.op = "forceDone")
            => /\ lastAct'.req = NoRequest /\ lastAct'.rtc = 0
               /\ store' = store /\ activeRuns' = activeRuns
               /\ exceptionCache' = exceptionCache]_vars
\* run-to-cursor is invoked after the suppression request resolved
C29_Witness ==
  /\ lastAct.op = "forceSuppressDone" /\ lastAct.sid = "s1" /\ ~lastAct.rejected
  /\ lastAct.rtc = 1
  /\ Len(activeRuns) = 1 /\ Has(activeRuns, "s1")
  /\ Get(activeRuns, "s1").savedBreakpoints = <<"A", "B">>
  /\ store = <<>>
  /\ Len(tasks) = 1 /\ tasks[1].pc = "runToCursor"
  /\ epoch["s1"].rtc = 1

\* C30: a stop that restores a session re-adds the saved list and deletes the
\* state in any case; it issues a request, setExceptionBreakpoints with the cached
\* configuration, exactly when the session has a cache entry and a usable session
\* (the one given, or else the stored reference), and returns true at once when it
\* issues none.  A stopped event with a reason other than exception never issues
\* a continue request.
C30_RestoreRequestIffUsable ==
  [][\A s \in Sessions :
       /\ (lastAct'.op = "stop" /\ lastAct'.sid = s /\ lastAct'.restored = s)
            => /\ store' = Get(activeRuns, s).savedBreakpoints
               /\ ~Has(activeRuns', s)
               /\ IF CacheHas(exceptionCache, s) /\ UsableSession(s, lastAct'.session)
                    THEN /\ lastAct'.req = Request("setExceptionBreakpoints", exceptionCache[s])
                         /\ lastAct'.ret = "pending"
                         /\ tasks'[Len(tasks')].req = lastAct'.req
                    ELSE /\ lastAct'.req = NoRequest
                         /\ lastAct'.ret = "true"
                         /\ Len(tasks') <= Len(tasks)
       /\ ( /\ lastAct'.op \in {"stop", "message"} /\ lastAct'.sid = s
            /\ lastAct'.in.type = "event" /\ lastAct'.in.event = "stopped"
            /\ lastAct'.in.body.reason # "exception" )
            => /\ \/ lastAct'.req = NoRequest
                  \/ lastAct'.req.command = "setExceptionBreakpoints"
               /\ \A i \in 1..Len(tasks') :
                    (tasks'[i].kind = "stop" /\ tasks'[i].pc = "continue")
                      => \E j \in 1..Len(tasks) : tasks[j] = tasks'[i]]_vars
\* a configuration is cached, but the stop handler has no usable session
C30_Witness ==
  /\ lastAct.op = "stop" /\ lastAct.sid = "s1" /\ lastAct.restored = "s1"
  /\ lastAct.in = Event("stopped", "breakpoint")
  /\ lastAct.session = "undefined"
  /\ lastAct.req = NoRequest /\ lastAct.ret = "true"
  /\ CacheHas(exceptionCache, "s1")
  /\ lastAct.leftover = <<"T">>
  /\ store = <<"A", "B">>

\* C31: under the scheduling of the event loop, a recorded force-run of s1 with
\* the user's breakpoints as saved list, during which no continue request has
\* been observed, leads to a state in which a continue request has been observed
\* after all, or the session has no state and the saved breakpoints are in the store.
C31_NoOpEventuallyRestored ==
  ( /\ Has(activeRuns, "s1")
    /\ Get(activeRuns, "s1").savedBreakpoints = <<"A", "B">>
    /\ ~epoch["s1"].cont )
    ~> ( \/ epoch["s1"].cont
         \/ /\ ~Has(activeRuns, "s1")
            /\ {"A", "B"} \subseteq Range(store) )

\* C32: handlers run one after the other, two sessions.  When the force-runs of
\* both sessions are pending and one cancelAll restores them, or two stop events
\* in a row restore first one and then the other, the store ends as the list it
\* was before the first of the two starts.
C32_OverlapNoLoss ==
  [][/\ (Len(activeRuns) = 2 /\ lastAct'.op \in {"cancel", "cancelResume"}
           /\ lastAct'.ret = "void")
          => store' = epoch[activeRuns[1].id].base
     /\ ( /\ lastAct.op = "stop" /\ lastAct.restored # "none" /\ lastAct.ret = "true"
          /\ lastAct'.op = "stop" /\ lastAct'.restored # "none"
          /\ lastAct'.restored # lastAct.restored
          /\ activeRuns' = <<>> /\ lastAct'.ret = "true" )
          => store' = epoch[lastAct'.restored].base
    ]_vars

\* C33: handlers run one after the other.  A no-op timer that was scheduled
\* before the recorded force-run of its session began leaves that force-run as it
\* is when it fires: the state stays recorded, the store is unchanged and no
\* request is issued.
C33_StaleTimerNoop ==
  [][\A s \in Sessions :
       ( /\ lastAct'.op \in {"timer", "timerIdle"} /\ lastAct'.sid = s
         /\ Has(activeRuns, s)
         /\ StaleTimer(epoch, timers, s) )
       => /\ activeRuns' = activeRuns
          /\ store' = store
          /\ lastAct'.req = NoRequest /\ lastAct'.restored = "none"]_vars

\* C34: two sessions, every interleaving of starts, terminations and timers with
\* the cancel command.  When cancelAll ends and clears the map, every state it
\* removes has had its saved list re-added by cancelAll, in this stretch of the
\* loop or in an earlier one, since the state was recorded.
C34_CancelClearsOnlyRestored ==
  [][(lastAct'.op \in {"cancel", "cancelResume"} /\ lastAct'.ret = "void")
       => /\ activeRuns' = <<>>
          /\ \A j \in 1..Len(activeRuns) :
               LET id == activeRuns[j].id IN
               readds[id] >= 1 \/ id \in lastAct'.all]_vars



\* C35: while a session has a Force-Run State none of the state's saved
\* breakpoints is in the store, the user not putting one back: no step of the
\* extension ends with a state recorded and one of its saved breakpoints newly
\* in the store
C35_PendingMeansRemoved ==
  [][\A s \in Sessions :
       (Has(activeRuns', s) /\ lastAct'.op # "hostAdd")
         => \A b \in Range(Get(activeRuns', s).savedBreakpoints) :
              b \in Range(store') => b \in Range(store)]_vars

\* C36: the auto-continue counter of a recorded state is within 0..3; a start
\* records its state with the counter at 0; a continue request of the extension
\* is issued only for a recorded state whose counter is below 3, and counts; no
\* other step changes the counter, so a state sees at most 3 continue requests
C36_CounterBounded ==
  [][\A s \in Sessions :
       LET count == Get(activeRuns, s).continueCount
           count2 == Get(activeRuns', s).continueCount
           starts == lastAct'.rtc = 1 /\ lastAct'.sid = s
           continues == lastAct'.req = Request("continue", [threadId |-> 1]) /\ lastAct'.sid = s
       IN
       /\ Has(activeRuns', s) => count2 \in 0..MAX_EXCEPTION_CONTINUES
       /\ starts => Has(activeRuns', s) /\ count2 = 0
       /\ continues => /\ Has(activeRuns, s) /\ Has(activeRuns', s)
                       /\ count < MAX_EXCEPTION_CONTINUES
                       /\ count2 = count + 1
       /\ (Has(activeRuns, s) /\ Has(activeRuns', s) /\ ~starts /\ ~continues)
            => count2 = count]_vars

\* the third exception stop of a force-run is auto-continued while the continue
\* request of the second one is still awaited
C36_Witness ==
  /\ Has(activeRuns, "s1") /\ Get(activeRuns, "s1").continueCount = MAX_EXCEPTION_CONTINUES
  /\ lastAct.op = "stop" /\ lastAct.req = Request("continue", [threadId |-> 1])
  /\ Len(tasks) = 2
  /\ \A i \in 1..2 : tasks[i].kind = "stop" /\ tasks[i].pc = "continue"

\* C37: a stopped event with reason exception for a session that has a state,
\* the handler having no usable session (none given and none stored, or the given
\* one without customRequest), is an ordinary stop whatever the counter: the
\* state is deleted, the store is set to the saved list, the handler returns true
\* and issues no request and no warning.
C37_ExceptionStopNoSession ==
  [][\A s \in Sessions :
       ( /\ Has(activeRuns, s)
         /\ lastAct'.op = "stop" /\ lastAct'.sid = s
         /\ lastAct'.in = Event("stopped", "exception")
         /\ ~UsableSession(s, lastAct'.session) )
       => /\ ~Has(activeRuns', s)
          /\ store' = Get(activeRuns, s).savedBreakpoints
          /\ lastAct'.restored = s
          /\ lastAct'.ret = "true"
          /\ lastAct'.req = NoRequest
          /\ lastAct'.warn = 0
          /\ tasks' = tasks]_vars
\* the session object has customRequest and exception stops of the force-run were
\* auto-continued, but this stop is given no session and none is stored
C37_Witness ==
  /\ lastAct.op = "stop" /\ lastAct.sid = "s1"
  /\ lastAct.in = Event("stopped", "exception")
  /\ lastAct.session = "undefined"
  /\ sessionInfo["s1"].customRequest /\ epoch["s1"].cont
  /\ CacheHas(exceptionCache, "s1")
  /\ lastAct.ret = "true" /\ lastAct.warn = 0
  /\ ~Has(activeRuns, "s1")
  /\ store = <<"A", "B">> /\ lastAct.leftover = <<"T">>

C39_SuppressedThenRestored ==
  [][\A s \in Sessions :
       ( /\ Has(activeRuns, s) /\ Get(activeRuns, s).sessionRef /\ ~Ended(s)
         /\ \/ lastAct'.op \in {"stop", "timer"} /\ lastAct'.sid = s /\ lastAct'.restored = s
            \/ lastAct'.op \in {"cancel", "cancelResume"} /\ s \in lastAct'.all )
       => /\ lastAct'.sid = s
          /\ lastAct'.req = Request("setExceptionBreakpoints", epoch[s].cfg)]_vars

\* C40: when no handler is suspended (and the extension is not deactivated) the
\* status indicator is shown exactly if some session has a state; and when the
\* cancel command updates the indicator, every state the sessions then have with
\* breakpoints saved has had them re-added by cancelAll.
C40_IndicatorIffPending ==
  [][/\ (Quiescent' /\ ~deactivated') => (statusBarActive' = (Len(activeRuns') > 0))
     /\ (lastAct'.op \in {"cancel", "cancelResume"} /\ lastAct'.ret = "void")
          => /\ statusBarActive' = FALSE /\ activeRuns' = <<>>
             /\ \A j \in 1..Len(activeRuns) :
                  LET id == activeRuns[j].id IN
                  \/ activeRuns[j].st.savedBreakpoints = <<>>
                  \/ readds[id] >= 1
                  \/ id \in lastAct'.all]_vars

====
